---- MODULE Spec2Model ----
(***************************************************************************)
(* Task-Management-API: registration, login, JWT verification, the         *)
(* authenticate / requireRole middleware and the task routes behind them.  *)
(*                                                                         *)
(* The store is the Prisma user table (and the task table); the clock is   *)
(* counted in ticks, TicksPerSec ticks to one JWT second, so that the      *)
(* floor jsonwebtoken applies to Date.now() is part of the model.          *)
(***************************************************************************)
EXTENDS Integers, Sequences, FiniteSets, Bags, TLC

----------------------------------------------------------------------------
(* Bounds *)

MaxTime == 2          \* the clock stops after this many ticks
TicksPerSec == 1      \* clock ticks per second of NumericDate
JwtExpiry == 2        \* config.jwt.expiry, in seconds (scaled down)
MaxTokens == 1        \* tokens of login that clients keep and present
MaxInflight == 2      \* register requests that can be in flight together
MaxTaskIds == 4       \* task ids that can be handed out, the seeded ones included

----------------------------------------------------------------------------
(* Input domains *)

AdminEmail == "admin@taskapp.com"
SeedUserEmail == "user@taskapp.com"
NewEmail == "user1@x.com"
Emails == {AdminEmail, SeedUserEmail, NewEmail}

AdminPassword == "Admin@123"
SeedUserPassword == "User@123"
Passwords == {AdminPassword, SeedUserPassword}

Roles == {"USER", "ADMIN"}
NoRole == ""                     \* the request body has no role
RoleInputs == Roles \cup {NoRole}

Salts == {"salt"}

JwtSecret == "config.jwt.secret"
OtherSecret == "attacker.secret"

----------------------------------------------------------------------------
(* Errors and the error handler *)

Null == "null"
Undefined == "undefined"

NoError == [app |-> FALSE, statusCode |-> 0, code |-> "", message |-> "",
            details |-> Undefined]

ConflictError ==
    [app |-> TRUE, statusCode |-> 409, code |-> "CONFLICT",
     message |-> "User already exists", details |-> Undefined]

\* PrismaClientKnownRequestError thrown by user.create on a duplicate email;
\* it is not an AppError
UniqueViolation ==
    [app |-> FALSE, statusCode |-> 0, code |-> "P2002",
     message |-> "Unique constraint failed on the fields: (email)",
     details |-> Undefined]

NoUserError_notFound ==
    [app |-> TRUE, statusCode |-> 404, code |-> "NOT_FOUND",
     message |-> "User not found", details |-> Undefined]

NoUserError ==
    [app |-> TRUE, statusCode |-> 401, code |-> "AUTH_FAILED",
     message |-> "Invalid credentials", details |-> Undefined]

BadPasswordError ==
    [app |-> TRUE, statusCode |-> 401, code |-> "AUTH_FAILED",
     message |-> "Invalid credentials", details |-> Undefined]

\* a failure of the store itself (the database cannot be reached), thrown
\* by a prisma call; it is not an AppError
StorageFault ==
    [app |-> FALSE, statusCode |-> 0, code |-> "P1001",
     message |-> "Can't reach database server", details |-> Undefined]

\* the SyntaxError express.json() raises on a body that is not JSON; it
\* carries a status of its own and is not an AppError
BodyParseError ==
    [app |-> FALSE, statusCode |-> 400, code |-> "entity.parse.failed",
     message |-> "Unexpected token in JSON", details |-> Undefined]

\* an error that is not an AppError is answered with its own message
errorHandler_ownMessage(err) ==
    IF err.app
    THEN [status |-> err.statusCode,
          json |-> [error |-> [code |-> err.code, message |-> err.message,
                               details |-> IF err.details = Undefined
                                           THEN Null
                                           ELSE err.details]]]
    ELSE [status |-> 500,
          json |-> [error |-> [code |-> "INTERNAL_ERROR",
                               message |-> err.message,
                               details |-> Null]]]

errorHandler(err) ==
    IF err.app
    THEN [status |-> err.statusCode,
          json |-> [error |-> [code |-> err.code, message |-> err.message,
                               details |-> IF err.details = Undefined
                                           THEN Null
                                           ELSE err.details]]]
    ELSE [status |-> 500,
          json |-> [error |-> [code |-> "INTERNAL_ERROR",
                               message |-> "An unexpected error occurred",
                               details |-> Null]]]

----------------------------------------------------------------------------
(* bcrypt *)

bcryptHash(password, salt) == [salt |-> salt, digest |-> <<salt, password>>]

bcryptCompare(password, hash) == hash.digest = <<hash.salt, password>>

----------------------------------------------------------------------------
(* jsonwebtoken *)

Seconds(clock) == clock \div TicksPerSec

hmac(key, payload) == <<key, payload>>

jwtSign(sub, role, key, expiresIn, clock) ==
    LET payload == [sub |-> sub, role |-> role, iat |-> Seconds(clock),
                    exp |-> Seconds(clock) + expiresIn]
    IN  [wf |-> TRUE, payload |-> payload, sig |-> hmac(key, payload)]

jwtVerify_late(token, key, clock) ==
    IF ~token.wf THEN "JsonWebTokenError"
    ELSE IF token.sig # hmac(key, token.payload) THEN "JsonWebTokenError"
    ELSE IF Seconds(clock) > token.payload.exp THEN "TokenExpiredError"
    ELSE "ok"

jwtVerify(token, key, clock) ==
    IF ~token.wf THEN "JsonWebTokenError"
    ELSE IF token.sig # hmac(key, token.payload) THEN "JsonWebTokenError"
    ELSE IF Seconds(clock) >= token.payload.exp THEN "TokenExpiredError"
    ELSE "ok"

NoPayload == [sub |-> 0, role |-> "", iat |-> 0, exp |-> 0]

NoToken == [wf |-> FALSE, payload |-> NoPayload, sig |-> <<"", NoPayload>>]

InvalidTokenError ==
    [app |-> TRUE, statusCode |-> 401, code |-> "INVALID_TOKEN",
     message |-> "Invalid or expired token", details |-> Undefined]

\* jwt.decode in place of jwt.verify
verifyToken_decode(token, clock) ==
    IF token.wf
    THEN [ok |-> TRUE, payload |-> token.payload, err |-> NoError]
    ELSE [ok |-> FALSE, payload |-> NoPayload, err |-> InvalidTokenError]

\* the catch tells an expired token from the rest
verifyToken_expired(token, clock) ==
    IF jwtVerify(token, JwtSecret, clock) = "ok"
    THEN [ok |-> TRUE, payload |-> token.payload, err |-> NoError]
    ELSE IF jwtVerify(token, JwtSecret, clock) = "TokenExpiredError"
    THEN [ok |-> FALSE, payload |-> NoPayload,
          err |-> [InvalidTokenError EXCEPT !.message = "Token expired"]]
    ELSE [ok |-> FALSE, payload |-> NoPayload, err |-> InvalidTokenError]

verifyToken(token, clock) ==
    IF jwtVerify(token, JwtSecret, clock) = "ok"
    THEN [ok |-> TRUE, payload |-> token.payload, err |-> NoError]
    ELSE [ok |-> FALSE, payload |-> NoPayload, err |-> InvalidTokenError]

----------------------------------------------------------------------------
(* State *)

VARIABLES
    users,      \* the user table: sequence of [id, email, password, role]
    registered, \* history: registered[i] is the request that created users[i]
                \* (email, plaintext password, role as given) and the id it
                \* was answered with
    inflight,   \* bag of the requests between their read of the store and
                \* their write: register DTOs between findUnique and create,
                \* task updates and deletes between findFirst and the write
    issued,     \* tokens returned by login
    tasks,      \* the task table: sequence of task rows, in insertion order
    taskIds,    \* number of task ids handed out so far
    now,        \* the clock, in ticks
    last        \* the request completed at the current instant, with its
                \* response; forgotten when the clock moves on

vars == <<users, registered, inflight, issued, tasks, taskIds, now, last>>

NoReq == [email |-> "", password |-> "", role |-> NoRole]

NoUser == [id |-> 0, email |-> "", password |-> bcryptHash("", ""), role |-> ""]

findUnique_none(table, email) == NoUser

\* prisma.user.findUnique({ where: { email } })
findUnique(table, email) ==
    IF \E i \in 1..Len(table) : table[i].email = email
    THEN table[CHOOSE i \in 1..Len(table) :
                   /\ table[i].email = email
                   /\ \A j \in 1..(i - 1) : table[j].email # email]
    ELSE NoUser

\* the unique index on User.email
EmailTaken(table, email) == \E i \in 1..Len(table) : table[i].email = email

userCreate_noIndex(table, email, hashedPassword, role) ==
    LET user == [id |-> Len(table) + 1, email |-> email,
                 password |-> hashedPassword, role |-> role]
    IN  [err |-> NoError, table |-> Append(table, user), user |-> user]

\* prisma.user.create({ data }): rejected by the unique index, or one insert
userCreate(table, email, hashedPassword, role) ==
    IF EmailTaken(table, email)
    THEN [err |-> UniqueViolation, table |-> table, user |-> NoUser]
    ELSE LET user == [id |-> Len(table) + 1, email |-> email,
                      password |-> hashedPassword, role |-> role]
         IN  [err |-> NoError, table |-> Append(table, user), user |-> user]

\* req.user before authenticate has run
NoCtx == [id |-> 0, role |-> ""]

Idle == [op |-> "none", req |-> NoReq, err |-> NoError, ran |-> <<>>,
         user |-> NoCtx, resp |-> [status |-> 0, json |-> [none |-> Null]]]

\* the database after prisma/seed.ts
SeedUsers ==
    << [id |-> 1, email |-> AdminEmail,
        password |-> bcryptHash(AdminPassword, "salt"), role |-> "ADMIN"],
       [id |-> 2, email |-> SeedUserEmail,
        password |-> bcryptHash(SeedUserPassword, "salt"), role |-> "USER"] >>

SeedTasks ==
    << [id |-> 1, title |-> "Complete project documentation",
        description |-> "Write comprehensive README and API docs",
        status |-> "PENDING", userId |-> 2, createdAt |-> 0],
       [id |-> 2, title |-> "Setup CI/CD pipeline",
        description |-> "Configure GitHub Actions for automated testing",
        status |-> "IN_PROGRESS", userId |-> 2, createdAt |-> 0],
       [id |-> 3, title |-> "Review pull requests",
        description |-> "Review and merge pending PRs",
        status |-> "COMPLETED", userId |-> 1, createdAt |-> 0] >>

Init ==
    /\ users = SeedUsers
    /\ registered = << [email |-> AdminEmail, password |-> AdminPassword,
                        role |-> "ADMIN", userId |-> 1],
                       [email |-> SeedUserEmail, password |-> SeedUserPassword,
                        role |-> "USER", userId |-> 2] >>
    /\ inflight = EmptyBag
    /\ issued = {}
    /\ tasks = SeedTasks
    /\ taskIds = Len(SeedTasks)
    /\ now = 0
    /\ last = Idle

----------------------------------------------------------------------------
(* POST /v1/auth/register *)

\* the role sent by the caller is ignored
roleOrDefault_user(role) == "USER"

roleOrDefault_admin(role) == IF role # NoRole THEN role ELSE "ADMIN"

\* data.role || Role.USER
roleOrDefault(role) == IF role # NoRole THEN role ELSE "USER"

\* AuthService.register up to its first await: the existence check
RegisterFind(email, password, role) ==
    /\ LET data == [email |-> email, password |-> password, role |-> role]
           existingUser == findUnique(users, email)
       IN  IF existingUser # NoUser
           THEN /\ last' = [op |-> "register", req |-> data,
                            err |-> ConflictError, ran |-> <<"findUnique">>,
                            user |-> NoCtx,
                            resp |-> errorHandler(ConflictError)]
                /\ UNCHANGED inflight
           ELSE /\ BagCardinality(inflight) < MaxInflight
                /\ inflight' = inflight (+) SetToBag({data})
                /\ UNCHANGED last
    /\ UNCHANGED <<users, registered, issued, tasks, taskIds, now>>

\* AuthService.register after the check: hash, insert, answer
RegisterCreate(data, salt) ==
    /\ BagIn(data, inflight)
    /\ LET hashedPassword == bcryptHash(data.password, salt)
           role == roleOrDefault(data.role)
           res == userCreate(users, data.email, hashedPassword, role)
           ran == <<"findUnique", "bcrypt.hash", "create">>
       IN  /\ users' = res.table
           /\ IF res.err = NoError
              THEN /\ registered' =
                        Append(registered,
                               data @@ [userId |-> res.user.id])
                   /\ last' = [op |-> "register", req |-> data,
                               err |-> NoError, ran |-> ran,
                               user |-> NoCtx,
                               resp |-> [status |-> 201,
                                         json |-> [userId |-> res.user.id]]]
              ELSE /\ UNCHANGED registered
                   /\ last' = [op |-> "register", req |-> data,
                               err |-> res.err, ran |-> ran,
                               user |-> NoCtx,
                               resp |-> errorHandler(res.err)]
    /\ inflight' = inflight (-) SetToBag({data})
    /\ UNCHANGED <<issued, tasks, taskIds, now>>

\* AuthService.register when findUnique rejects: the controller's catch
\* hands the error to next(error)
RegisterFindFault(email, password, role) ==
    /\ last' = [op |-> "register",
                req |-> [email |-> email, password |-> password,
                         role |-> role],
                err |-> StorageFault, ran |-> <<"findUnique">>,
                user |-> NoCtx, resp |-> errorHandler(StorageFault)]
    /\ UNCHANGED <<users, registered, inflight, issued, tasks, taskIds, now>>

\* the failed create is tried once more, and goes through
RegisterCreateFault_retry(data, salt) ==
    /\ BagIn(data, inflight)
    /\ LET res == userCreate(users, data.email,
                             bcryptHash(data.password, salt),
                             roleOrDefault(data.role))
       IN  /\ res.err = NoError
           /\ users' = res.table
           /\ registered' = Append(registered,
                                   data @@ [userId |-> res.user.id])
           /\ last' = [op |-> "register", req |-> data, err |-> NoError,
                       ran |-> <<"findUnique", "bcrypt.hash", "create",
                                 "create">>,
                       user |-> NoCtx,
                       resp |-> [status |-> 201,
                                 json |-> [userId |-> res.user.id]]]
    /\ inflight' = inflight (-) SetToBag({data})
    /\ UNCHANGED <<issued, tasks, taskIds, now>>

\* AuthService.register when create rejects after the check and the hash:
\* no row is written and the error goes to next(error)
RegisterCreateFault(data, salt) ==
    /\ BagIn(data, inflight)
    /\ last' = [op |-> "register", req |-> data, err |-> StorageFault,
                ran |-> <<"findUnique", "bcrypt.hash", "create">>,
                user |-> NoCtx, resp |-> errorHandler(StorageFault)]
    /\ inflight' = inflight (-) SetToBag({data})
    /\ UNCHANGED <<users, registered, issued, tasks, taskIds, now>>

----------------------------------------------------------------------------
(* POST /v1/auth/login *)

\* the row is returned as it was read
login_wholeRow(table, email, password, clock) ==
    LET user == findUnique(table, email)
    IN  IF user = NoUser
        THEN [err |-> NoUserError, token |-> NoToken,
              ran |-> <<"findUnique">>,
              resp |-> errorHandler(NoUserError)]
        ELSE IF ~bcryptCompare(password, user.password)
        THEN [err |-> BadPasswordError, token |-> NoToken,
              ran |-> <<"findUnique", "bcrypt.compare">>,
              resp |-> errorHandler(BadPasswordError)]
        ELSE LET token == jwtSign(user.id, user.role, JwtSecret, JwtExpiry,
                                  clock)
             IN  [err |-> NoError, token |-> token,
                  ran |-> <<"findUnique", "bcrypt.compare", "jwt.sign">>,
                  resp |-> [status |-> 200,
                            json |-> [token |-> token, user |-> user]]]

\* AuthService.login as a function of the table it reads and the clock.
\* Its one read of the store is findUnique; what follows (compare, sign)
\* works on that row and writes nothing, so the call is taken in one step.
login(table, email, password, clock) ==
    LET user == findUnique(table, email)
    IN  IF user = NoUser
        THEN [err |-> NoUserError, token |-> NoToken,
              ran |-> <<"findUnique">>,
              resp |-> errorHandler(NoUserError)]
        ELSE IF ~bcryptCompare(password, user.password)
        THEN [err |-> BadPasswordError, token |-> NoToken,
              ran |-> <<"findUnique", "bcrypt.compare">>,
              resp |-> errorHandler(BadPasswordError)]
        ELSE LET token == jwtSign(user.id, user.role, JwtSecret, JwtExpiry,
                                  clock)
             IN  [err |-> NoError, token |-> token,
                  ran |-> <<"findUnique", "bcrypt.compare", "jwt.sign">>,
                  resp |-> [status |-> 200,
                            json |-> [token |-> token,
                                      user |-> [id |-> user.id,
                                                email |-> user.email,
                                                role |-> user.role]]]]

\* a successful login stores the password hashed afresh
Login_rehash(email, password) ==
    LET res == login(users, email, password, now)
    IN  /\ issued' = IF res.err = NoError /\ Cardinality(issued) < MaxTokens
                     THEN issued \cup {res.token}
                     ELSE issued
        /\ last' = [op |-> "login",
                    req |-> [email |-> email, password |-> password,
                             role |-> NoRole],
                    err |-> res.err, ran |-> <<"findUnique">>,
                    resp |-> res.resp]
        /\ users' = [i \in 1..Len(users) |->
                         IF res.err = NoError /\ users[i].email = email
                         THEN [users[i] EXCEPT
                                  !.password = bcryptHash(password, "salt2")]
                         ELSE users[i]]
        /\ UNCHANGED <<registered, inflight, tasks, taskIds, now>>

\* POST /v1/auth/login; of the tokens handed out, the clients keep the
\* first MaxTokens to present them later
Login(email, password) ==
    LET res == login(users, email, password, now)
    IN  /\ issued' = IF res.err = NoError /\ Cardinality(issued) < MaxTokens
                     THEN issued \cup {res.token}
                     ELSE issued
        /\ last' = [op |-> "login",
                    req |-> [email |-> email, password |-> password,
                             role |-> NoRole],
                    err |-> res.err, ran |-> <<"findUnique">>,
                    resp |-> res.resp]
        /\ UNCHANGED <<users, registered, inflight, tasks, taskIds, now>>

\* AuthService.login when findUnique rejects
LoginFault(email, password) ==
    /\ last' = [op |-> "login",
                req |-> [email |-> email, password |-> password,
                         role |-> NoRole],
                err |-> StorageFault, ran |-> <<"findUnique">>,
                resp |-> errorHandler(StorageFault)]
    /\ UNCHANGED <<users, registered, inflight, issued, tasks, taskIds, now>>

----------------------------------------------------------------------------
(* Middleware: authenticate, requireRole, validate *)

NoTokenProvidedError ==
    [app |-> TRUE, statusCode |-> 401, code |-> "INVALID_TOKEN",
     message |-> "No token provided", details |-> Undefined]

NotAuthenticatedError ==
    [app |-> TRUE, statusCode |-> 401, code |-> "INVALID_TOKEN",
     message |-> "Not authenticated", details |-> Undefined]

ForbiddenError ==
    [app |-> TRUE, statusCode |-> 403, code |-> "FORBIDDEN",
     message |-> "Insufficient permissions", details |-> Undefined]

ValidationError(fields) ==
    [app |-> TRUE, statusCode |-> 400, code |-> "VALIDATION_ERROR",
     message |-> "Validation failed", details |-> fields]

\* an Authorization header: absent, or a scheme prefix followed by a token
NoHeader == [present |-> FALSE, scheme |-> "", token |-> NoToken]

BearerHeader(token) == [present |-> TRUE, scheme |-> "Bearer ", token |-> token]

\* the scheme is compared without regard to case
authenticate_anyCase(header, clock) ==
    IF ~header.present \/ header.scheme \notin {"Bearer ", "bearer "}
    THEN [err |-> NoTokenProvidedError, user |-> NoCtx,
          ran |-> <<"authenticate">>]
    ELSE LET res == verifyToken(header.token, clock)
         IN  IF res.ok
             THEN [err |-> NoError,
                   user |-> [id |-> res.payload.sub, role |-> res.payload.role],
                   ran |-> <<"authenticate", "verifyToken">>]
             ELSE [err |-> res.err, user |-> NoCtx,
                   ran |-> <<"authenticate", "verifyToken">>]

\* a login ends the Identity's earlier tokens
authenticate_latestOnly(header, clock) ==
    IF ~header.present \/ header.scheme # "Bearer "
    THEN [err |-> NoTokenProvidedError, user |-> NoCtx,
          ran |-> <<"authenticate">>]
    ELSE LET res == verifyToken(header.token, clock)
             newer == /\ last.op = "login"
                      /\ last.resp.status = 200
                      /\ last.resp.json.user.id = header.token.payload.sub
                      /\ last.resp.json.token # header.token
         IN  IF res.ok /\ ~newer
             THEN [err |-> NoError,
                   user |-> [id |-> res.payload.sub, role |-> res.payload.role],
                   ran |-> <<"authenticate", "verifyToken">>]
             ELSE [err |-> InvalidTokenError, user |-> NoCtx,
                   ran |-> <<"authenticate", "verifyToken">>]

authenticate(header, clock) ==
    IF ~header.present \/ header.scheme # "Bearer "
    THEN [err |-> NoTokenProvidedError, user |-> NoCtx,
          ran |-> <<"authenticate">>]
    ELSE LET res == verifyToken(header.token, clock)
         IN  IF res.ok
             THEN [err |-> NoError,
                   user |-> [id |-> res.payload.sub, role |-> res.payload.role],
                   ran |-> <<"authenticate", "verifyToken">>]
             ELSE [err |-> res.err, user |-> NoCtx,
                   ran |-> <<"authenticate", "verifyToken">>]

\* the role is not compared
requireRole_any(roles, user) ==
    IF user = NoCtx THEN NotAuthenticatedError ELSE NoError

requireRole(roles, user) ==
    IF user = NoCtx THEN NotAuthenticatedError
    ELSE IF user.role \notin roles THEN ForbiddenError
    ELSE NoError

Statuses == {"PENDING", "IN_PROGRESS", "COMPLETED"}
Absent == "<absent>"

\* a number in a query string: given or not
NotGiven == [given |-> FALSE, n |-> 0]
Given(n) == [given |-> TRUE, n |-> n]

NoBody == [title |-> Absent, description |-> Absent, status |-> Absent,
           userId |-> Absent]
NoQuery == [page |-> NotGiven, limit |-> NotGiven]

\* Joi.string().email(): one '@' with a local part before it and, after it,
\* a domain of at least two non-empty segments (the top-level domains of
\* the inputs are registered ones)
IsEmail(s) ==
    LET at == {i \in 1..Len(s) : SubSeq(s, i, i) = "@"}
    IN  /\ Cardinality(at) = 1
        /\ LET a == CHOOSE i \in at : TRUE
               dots == {i \in (a + 1)..Len(s) : SubSeq(s, i, i) = "."}
           IN  /\ a > 1
               /\ dots # {}
               /\ \A i \in dots :
                      i > a + 1 /\ i < Len(s) /\ (i + 1) \notin dots

\* password: Joi.string().required(), of any length
registerSchema_anyPassword(data) ==
    LET emailOk == data.email # Absent /\ IsEmail(data.email)
        passwordOk == data.password \notin {Absent, ""}
        roleOk == data.role \in Roles \cup {NoRole}
    IN  [fields |-> (IF emailOk THEN "" ELSE "email ")
                    \o (IF passwordOk THEN "" ELSE "password ")
                    \o (IF roleOk THEN "" ELSE "role "),
         ok |-> emailOk /\ passwordOk /\ roleOk,
         value |-> [email |-> data.email, password |-> data.password,
                    role |-> IF data.role = NoRole THEN "USER"
                             ELSE data.role]]

registerSchema(data) ==
    LET emailOk == data.email # Absent /\ IsEmail(data.email)
        passwordOk == data.password # Absent /\ Len(data.password) >= 8
        roleOk == data.role \in Roles \cup {NoRole}
    IN  [fields |-> (IF emailOk THEN "" ELSE "email ")
                    \o (IF passwordOk THEN "" ELSE "password ")
                    \o (IF roleOk THEN "" ELSE "role "),
         ok |-> emailOk /\ passwordOk /\ roleOk,
         value |-> [email |-> data.email, password |-> data.password,
                    role |-> IF data.role = NoRole THEN "USER"
                             ELSE data.role]]

createTaskSchema(data) ==
    [fields |-> (IF data.title \in {Absent, ""} THEN "title " ELSE "")
                \o (IF data.status \notin Statuses \cup {Absent}
                    THEN "status " ELSE ""),
     ok |-> /\ data.title \notin {Absent, ""}
            /\ data.status \in Statuses \cup {Absent},
     value |-> [title |-> data.title, description |-> data.description,
                status |-> data.status]]

\* the object schema without .min(1)
updateTaskSchema_noMin(data) ==
    [fields |-> (IF data.title = "" THEN "title " ELSE "")
                \o (IF data.status \notin Statuses \cup {Absent}
                    THEN "status " ELSE ""),
     ok |-> /\ data.title # ""
            /\ data.status \in Statuses \cup {Absent},
     value |-> [title |-> data.title, description |-> data.description,
                status |-> data.status]]

updateTaskSchema(data) ==
    LET known == {f \in {"title", "description", "status"} : data[f] # Absent}
    IN  [fields |-> (IF data.title = "" THEN "title " ELSE "")
                    \o (IF data.status \notin Statuses \cup {Absent}
                        THEN "status " ELSE "")
                    \o (IF known = {} THEN "value " ELSE ""),
         ok |-> /\ data.title # ""
                /\ data.status \in Statuses \cup {Absent}
                /\ known # {},
         value |-> [title |-> data.title, description |-> data.description,
                    status |-> data.status]]

paginationSchema(data) ==
    LET pageOk == ~data.page.given \/ data.page.n >= 1
        limitOk == ~data.limit.given
                   \/ (data.limit.n >= 1 /\ data.limit.n <= 100)
    IN  [fields |-> (IF pageOk THEN "" ELSE "page ")
                    \o (IF limitOk THEN "" ELSE "limit "),
         ok |-> pageOk /\ limitOk,
         value |-> [page |-> IF data.page.given THEN data.page.n ELSE 1,
                    limit |-> IF data.limit.given THEN data.limit.n ELSE 10]]

NoValue == [none |-> Null]

\* validate(schema, property): the schema's verdict on req[property]
validate(schema, body, query) ==
    LET res == CASE schema = "createTaskSchema" -> createTaskSchema(body)
                 [] schema = "updateTaskSchema" -> updateTaskSchema(body)
                 [] schema = "paginationSchema" -> paginationSchema(query)
                 [] schema = "registerSchema" -> registerSchema(body)
    IN  IF ~res.ok
        THEN [err |-> ValidationError(res.fields), value |-> NoValue]
        ELSE [err |-> NoError, value |-> res.value]

----------------------------------------------------------------------------
(* The auth router *)

\* routes/authRoutes: the body of a register request goes through
\* validate(registerSchema) before the controller
authRoutes ==
    {[method |-> "POST", path |-> "/register", schema |-> "registerSchema",
      handler |-> "register"]}

\* POST /v1/auth/register as the router takes it: the validation
\* middleware, then AuthController.register up to the existence check
RegisterRequest(email, password, role) ==
    LET body == [email |-> email, password |-> password, role |-> role]
        route == CHOOSE r \in authRoutes :
                     r.method = "POST" /\ r.path = "/register"
        val == validate(route.schema, body, NoQuery)
    IN  IF val.err # NoError
        THEN /\ last' = [op |-> "register", req |-> body, err |-> val.err,
                         ran |-> <<"validate">>, user |-> NoCtx,
                         resp |-> errorHandler(val.err)]
             /\ UNCHANGED <<users, registered, inflight, issued, tasks,
                            taskIds, now>>
        ELSE RegisterFind(val.value.email, val.value.password,
                          val.value.role)

----------------------------------------------------------------------------
(* The task router *)

\* '/all' registered without requireRole
taskRoutes_open ==
    << [method |-> "POST", pattern |-> "/", roles |-> {},
        schema |-> "createTaskSchema", handler |-> "createTask"],
       [method |-> "GET", pattern |-> "/", roles |-> {},
        schema |-> "paginationSchema", handler |-> "getTasks"],
       [method |-> "GET", pattern |-> "/all", roles |-> {},
        schema |-> "paginationSchema", handler |-> "getAllTasks"],
       [method |-> "GET", pattern |-> "/:id", roles |-> {},
        schema |-> "none", handler |-> "getTaskById"],
       [method |-> "PUT", pattern |-> "/:id", roles |-> {},
        schema |-> "updateTaskSchema", handler |-> "updateTask"],
       [method |-> "DELETE", pattern |-> "/:id", roles |-> {},
        schema |-> "none", handler |-> "deleteTask"] >>

\* routes in registration order, after router.use(authenticate)
taskRoutes ==
    << [method |-> "POST", pattern |-> "/", roles |-> {},
        schema |-> "createTaskSchema", handler |-> "createTask"],
       [method |-> "GET", pattern |-> "/", roles |-> {},
        schema |-> "paginationSchema", handler |-> "getTasks"],
       [method |-> "GET", pattern |-> "/all", roles |-> {"ADMIN"},
        schema |-> "paginationSchema", handler |-> "getAllTasks"],
       [method |-> "GET", pattern |-> "/:id", roles |-> {},
        schema |-> "none", handler |-> "getTaskById"],
       [method |-> "PUT", pattern |-> "/:id", roles |-> {},
        schema |-> "updateTaskSchema", handler |-> "updateTask"],
       [method |-> "DELETE", pattern |-> "/:id", roles |-> {},
        schema |-> "none", handler |-> "deleteTask"] >>

\* a request path is "/", "/all" or "/:id" (one segment naming a task id);
\* the pattern "/:id" matches any single segment, "all" included
Matches(route, method, path) ==
    /\ route.method = method
    /\ \/ route.pattern = path
       \/ route.pattern = "/:id" /\ path = "/all"

Routable(method, path) ==
    \E i \in 1..Len(taskRoutes) : Matches(taskRoutes[i], method, path)

matchRoute(method, path) ==
    taskRoutes[CHOOSE i \in 1..Len(taskRoutes) :
                   /\ Matches(taskRoutes[i], method, path)
                   /\ \A j \in 1..(i - 1) :
                          ~Matches(taskRoutes[j], method, path)]

\* the router without router.use(authenticate): nothing sets req.user
dispatch_open(req, clock) ==
    LET route == matchRoute(req.method, req.path)
        roleErr == IF route.roles = {} THEN NoError
                   ELSE requireRole(route.roles, NoCtx)
        ran2 == IF route.roles = {} THEN <<>> ELSE <<"requireRole">>
        val == IF route.schema = "none"
               THEN [err |-> NoError, value |-> NoValue]
               ELSE validate(route.schema, req.body, req.query)
        ran3 == IF route.schema = "none" THEN ran2
                ELSE Append(ran2, "validate")
    IN  IF roleErr # NoError
        THEN [err |-> roleErr, user |-> NoCtx, ran |-> ran2,
              handler |-> "none", value |-> NoValue]
        ELSE IF val.err # NoError
        THEN [err |-> val.err, user |-> NoCtx, ran |-> ran3,
              handler |-> "none", value |-> NoValue]
        ELSE [err |-> NoError, user |-> NoCtx, ran |-> ran3,
              handler |-> route.handler, value |-> val.value]

\* validate is registered before requireRole
dispatch_validateFirst(req, clock) ==
    LET auth == authenticate(req.header, clock)
        route == matchRoute(req.method, req.path)
        val == IF route.schema = "none"
               THEN [err |-> NoError, value |-> NoValue]
               ELSE validate(route.schema, req.body, req.query)
        ran2 == IF route.schema = "none" THEN auth.ran
                ELSE Append(auth.ran, "validate")
        roleErr == IF route.roles = {} THEN NoError
                   ELSE requireRole(route.roles, auth.user)
        ran3 == IF route.roles = {} THEN ran2
                ELSE Append(ran2, "requireRole")
    IN  IF auth.err # NoError
        THEN [err |-> auth.err, user |-> auth.user, ran |-> auth.ran,
              handler |-> "none", value |-> NoValue]
        ELSE IF val.err # NoError
        THEN [err |-> val.err, user |-> auth.user, ran |-> ran2,
              handler |-> "none", value |-> NoValue]
        ELSE IF roleErr # NoError
        THEN [err |-> roleErr, user |-> auth.user, ran |-> ran3,
              handler |-> "none", value |-> NoValue]
        ELSE [err |-> NoError, user |-> auth.user, ran |-> ran3,
              handler |-> route.handler, value |-> val.value]

\* the synchronous middleware chain of a task request, up to the controller
dispatch(req, clock) ==
    LET auth == authenticate(req.header, clock)
        route == matchRoute(req.method, req.path)
        roleErr == IF route.roles = {} THEN NoError
                   ELSE requireRole(route.roles, auth.user)
        ran2 == IF route.roles = {} THEN auth.ran
                ELSE Append(auth.ran, "requireRole")
        val == IF route.schema = "none"
               THEN [err |-> NoError, value |-> NoValue]
               ELSE validate(route.schema, req.body, req.query)
        ran3 == IF route.schema = "none" THEN ran2
                ELSE Append(ran2, "validate")
    IN  IF auth.err # NoError
        THEN [err |-> auth.err, user |-> auth.user, ran |-> auth.ran,
              handler |-> "none", value |-> NoValue]
        ELSE IF roleErr # NoError
        THEN [err |-> roleErr, user |-> auth.user, ran |-> ran2,
              handler |-> "none", value |-> NoValue]
        ELSE IF val.err # NoError
        THEN [err |-> val.err, user |-> auth.user, ran |-> ran3,
              handler |-> "none", value |-> NoValue]
        ELSE [err |-> NoError, user |-> auth.user, ran |-> ran3,
              handler |-> route.handler, value |-> val.value]

----------------------------------------------------------------------------
(* TaskService *)

NotFoundError ==
    [app |-> TRUE, statusCode |-> 404, code |-> "NOT_FOUND",
     message |-> "Task not found", details |-> Undefined]

RECURSIVE OrderingsOf(_, _)
\* the sequences of the row indices in `idx`, newest createdAt first; rows
\* with equal createdAt come in any order
OrderingsOf(table, idx) ==
    IF idx = {} THEN {<<>>}
    ELSE LET newest == {i \in idx : \A j \in idx :
                            table[i].createdAt >= table[j].createdAt}
         IN  UNION {{<<i>> \o rest : rest \in OrderingsOf(table, idx \ {i})} :
                    i \in newest}

\* the orders in which the store may return the rows of `table` that the
\* where clause keeps, under orderBy createdAt desc
Orderings(table, keep) == OrderingsOf(table, keep)

\* the rows of `table` in the order `o` of their indices
SelectRows(table, o) == [k \in 1..Len(o) |-> table[o[k]]]

Min(a, b) == IF a < b THEN a ELSE b

\* skip / take on an ordered result
Page(rows, skip, take) == SubSeq(rows, skip + 1, Min(skip + take, Len(rows)))

CeilDiv(a, b) == (a + b - 1) \div b

\* skip computed as page * limit
Paginated_skipPage(rows, params) ==
    [data |-> Page(rows, params.page * params.limit, params.limit),
     pagination |-> [page |-> params.page, limit |-> params.limit,
                     total |-> Len(rows),
                     totalPages |-> CeilDiv(Len(rows), params.limit)]]

\* getTasks / getAllTasks: skip = (page - 1) * limit, take = limit, and the
\* pagination block of the answer
Paginated(rows, params) ==
    [data |-> Page(rows, (params.page - 1) * params.limit, params.limit),
     pagination |-> [page |-> params.page, limit |-> params.limit,
                     total |-> Len(rows),
                     totalPages |-> CeilDiv(Len(rows), params.limit)]]

\* the owner is left out of the where clause
findFirst_anyOwner(table, taskId, userId) ==
    IF \E i \in 1..Len(table) : table[i].id = taskId
    THEN CHOOSE i \in 1..Len(table) : table[i].id = taskId
    ELSE 0

\* prisma.task.findFirst({ where: { id, userId } }): index of the row, or 0
findFirst(table, taskId, userId) ==
    IF \E i \in 1..Len(table) :
           table[i].id = taskId /\ table[i].userId = userId
    THEN CHOOSE i \in 1..Len(table) :
             table[i].id = taskId /\ table[i].userId = userId
    ELSE 0

RemoveAt(table, i) == SubSeq(table, 1, i - 1) \o SubSeq(table, i + 1, Len(table))

\* the include: { user: { select: { id, email, role } } } of getAllTasks
WithUser(table, row) ==
    LET owner == CHOOSE i \in 1..Len(table) : table[i].id = row.userId
    IN  [id |-> row.id, title |-> row.title, description |-> row.description,
         status |-> row.status, userId |-> row.userId,
         createdAt |-> row.createdAt,
         user |-> [id |-> table[owner].id, email |-> table[owner].email,
                   role |-> table[owner].role]]

Ok(table, ids, status, json, ran) ==
    [err |-> NoError, table |-> table, ids |-> ids,
     resp |-> [status |-> status, json |-> json], ran |-> ran]

Failed(table, ids, err, ran) ==
    [err |-> err, table |-> table, ids |-> ids, resp |-> errorHandler(err),
     ran |-> ran]

\* the status is stored as the body gives it, with no default
createTask_asGiven(table, ids, userId, data, clock) ==
    LET task == [id |-> ids + 1, title |-> data.title,
                 description |-> IF data.description = Absent THEN Null
                                 ELSE data.description,
                 status |-> data.status,
                 userId |-> userId, createdAt |-> clock]
    IN  {Ok(Append(table, task), ids + 1, 201, task,
            <<"createTask", "task.create">>)}

createTask(table, ids, userId, data, clock) ==
    LET task == [id |-> ids + 1, title |-> data.title,
                 description |-> IF data.description = Absent THEN Null
                                 ELSE data.description,
                 status |-> IF data.status = Absent THEN "PENDING"
                            ELSE data.status,
                 userId |-> userId, createdAt |-> clock]
    IN  {Ok(Append(table, task), ids + 1, 201, task,
            <<"createTask", "task.create">>)}

\* one outcome for each order the store may return the rows in
getTasks(table, ids, userId, params) ==
    LET mine == {i \in 1..Len(table) : table[i].userId = userId}
    IN  {Ok(table, ids, 200, Paginated(SelectRows(table, o), params),
            <<"getTasks", "task.findMany", "task.count">>) :
         o \in Orderings(table, mine)}

getAllTasks(table, ids, userTable, params) ==
    {LET rows == SelectRows(table, o)
         full == [i \in 1..Len(rows) |-> WithUser(userTable, rows[i])]
     IN  Ok(table, ids, 200, Paginated(full, params),
            <<"getAllTasks", "task.findMany", "task.count">>) :
     o \in Orderings(table, 1..Len(table))}

getTaskById(table, ids, taskId, userId) ==
    LET i == findFirst(table, taskId, userId)
    IN  IF i = 0
        THEN {Failed(table, ids, NotFoundError,
                     <<"getTaskById", "task.findFirst">>)}
        ELSE {Ok(table, ids, 200, table[i],
                 <<"getTaskById", "task.findFirst">>)}

\* a status that the request does not name is set back to PENDING
updateTask_resetStatus(table, ids, taskId, userId, data) ==
    LET i == findFirst(table, taskId, userId)
    IN  IF i = 0
        THEN {Failed(table, ids, NotFoundError,
                     <<"updateTask", "task.findFirst">>)}
        ELSE LET task == [table[i] EXCEPT
                             !.title = IF data.title = Absent THEN @
                                       ELSE data.title,
                             !.description = IF data.description = Absent
                                             THEN @ ELSE data.description,
                             !.status = IF data.status = Absent
                                        THEN "PENDING" ELSE data.status]
             IN  {Ok([table EXCEPT ![i] = task], ids, 200, task,
                     <<"updateTask", "task.findFirst", "task.update">>)}

updateTask(table, ids, taskId, userId, data) ==
    LET i == findFirst(table, taskId, userId)
    IN  IF i = 0
        THEN {Failed(table, ids, NotFoundError,
                     <<"updateTask", "task.findFirst">>)}
        ELSE LET task == [table[i] EXCEPT
                             !.title = IF data.title = Absent THEN @
                                       ELSE data.title,
                             !.description = IF data.description = Absent
                                             THEN @ ELSE data.description,
                             !.status = IF data.status = Absent THEN @
                                        ELSE data.status]
             IN  {Ok([table EXCEPT ![i] = task], ids, 200, task,
                     <<"updateTask", "task.findFirst", "task.update">>)}

\* deleting what is not there counts as done
deleteTask_quiet(table, ids, taskId, userId) ==
    LET i == findFirst(table, taskId, userId)
    IN  IF i = 0
        THEN {Ok(table, ids, 204, NoValue,
                 <<"deleteTask", "task.findFirst">>)}
        ELSE {Ok(RemoveAt(table, i), ids, 204, NoValue,
                 <<"deleteTask", "task.findFirst", "task.delete">>)}

deleteTask(table, ids, taskId, userId) ==
    LET i == findFirst(table, taskId, userId)
    IN  IF i = 0
        THEN {Failed(table, ids, NotFoundError,
                     <<"deleteTask", "task.findFirst">>)}
        ELSE {Ok(RemoveAt(table, i), ids, 204, NoValue,
                 <<"deleteTask", "task.findFirst", "task.delete">>)}

\* the TaskController method the router ends in: the outcomes it can have
handle(handler, table, ids, userTable, user, taskId, value, clock) ==
    CASE handler = "createTask" -> createTask(table, ids, user.id, value, clock)
      [] handler = "getTasks" -> getTasks(table, ids, user.id, value)
      [] handler = "getAllTasks" -> getAllTasks(table, ids, userTable, value)
      [] handler = "getTaskById" -> getTaskById(table, ids, taskId, user.id)
      [] handler = "updateTask" ->
             updateTask(table, ids, taskId, user.id, value)
      [] handler = "deleteTask" -> deleteTask(table, ids, taskId, user.id)

----------------------------------------------------------------------------
(* A request to /v1/tasks *)

\* The middleware chain is synchronous and the controller's store call
\* follows it, so the request is taken in one step.
TaskRequest(method, path, header, taskId, body, query) ==
    /\ Routable(method, path)
    /\ LET req == [method |-> method, path |-> path, header |-> header,
                   id |-> taskId, body |-> body, query |-> query]
           d == dispatch(req, now)
       IN  IF d.err # NoError
           THEN /\ last' = [op |-> "task", req |-> req, err |-> d.err,
                            ran |-> d.ran, user |-> d.user,
                            resp |-> errorHandler(d.err)]
                /\ UNCHANGED <<tasks, taskIds>>
           ELSE \E h \in handle(d.handler, tasks, taskIds, users, d.user,
                                taskId, d.value, now) :
                    /\ h.ids <= MaxTaskIds
                    /\ tasks' = h.table
                    /\ taskIds' = h.ids
                    /\ last' = [op |-> "task", req |-> req, err |-> h.err,
                                ran |-> d.ran \o h.ran, user |-> d.user,
                                resp |-> h.resp]
    /\ UNCHANGED <<users, registered, inflight, issued, now>>

----------------------------------------------------------------------------
(* An update or a delete, its two awaits apart *)

\* the PrismaClientKnownRequestError that task.update and task.delete throw
\* when no row has the id of the where clause; it is not an AppError
RecordNotFound ==
    [app |-> FALSE, statusCode |-> 0, code |-> "P2025",
     message |-> "Record to update or delete does not exist",
     details |-> Undefined]

\* index of the row with this id, or 0
rowOf(table, taskId) ==
    IF \E i \in 1..Len(table) : table[i].id = taskId
    THEN CHOOSE i \in 1..Len(table) : table[i].id = taskId
    ELSE 0

\* updateTask / deleteTask up to the answer of getTaskById: the middleware
\* chain, then findFirst; a task that is found is kept for the write
TaskOpFind(method, header, taskId, body) ==
    /\ method \in {"PUT", "DELETE"}
    /\ LET req == [method |-> method, path |-> "/:id", header |-> header,
                   id |-> taskId, body |-> body, query |-> NoQuery]
           d == dispatch(req, now)
           i == findFirst(tasks, taskId, d.user.id)
       IN  IF d.err # NoError
           THEN /\ last' = [op |-> "task", req |-> req, err |-> d.err,
                            ran |-> d.ran, user |-> d.user,
                            resp |-> errorHandler(d.err)]
                /\ UNCHANGED inflight
           ELSE IF i = 0
           THEN /\ last' = [op |-> "task", req |-> req,
                            err |-> NotFoundError,
                            ran |-> d.ran \o <<d.handler, "task.findFirst">>,
                            user |-> d.user,
                            resp |-> errorHandler(NotFoundError)]
                /\ UNCHANGED inflight
           ELSE /\ BagCardinality(inflight) < MaxInflight
                /\ inflight' = inflight (+) SetToBag({
                       [req |-> req, user |-> d.user, handler |-> d.handler,
                        value |-> d.value, taskId |-> tasks[i].id,
                        ran |-> d.ran \o <<d.handler, "task.findFirst">>]})
                /\ UNCHANGED last
    /\ UNCHANGED <<users, registered, issued, tasks, taskIds, now>>

\* updateTask / deleteTask after getTaskById: prisma.task.update or
\* prisma.task.delete where { id: task.id }, on the table as it is by then
TaskOpWrite(p) ==
    /\ BagIn(p, inflight)
    /\ LET i == rowOf(tasks, p.taskId)
           write == IF p.handler = "deleteTask" THEN "task.delete"
                    ELSE "task.update"
       IN  IF i = 0
           THEN /\ last' = [op |-> "task", req |-> p.req,
                            err |-> RecordNotFound,
                            ran |-> Append(p.ran, write), user |-> p.user,
                            resp |-> errorHandler(RecordNotFound)]
                /\ UNCHANGED tasks
           ELSE IF p.handler = "deleteTask"
           THEN /\ tasks' = RemoveAt(tasks, i)
                /\ last' = [op |-> "task", req |-> p.req, err |-> NoError,
                            ran |-> Append(p.ran, write), user |-> p.user,
                            resp |-> [status |-> 204, json |-> NoValue]]
           ELSE LET task == [tasks[i] EXCEPT
                                !.title = IF p.value.title = Absent THEN @
                                          ELSE p.value.title,
                                !.description =
                                    IF p.value.description = Absent THEN @
                                    ELSE p.value.description,
                                !.status = IF p.value.status = Absent THEN @
                                           ELSE p.value.status]
                IN  /\ tasks' = [tasks EXCEPT ![i] = task]
                    /\ last' = [op |-> "task", req |-> p.req,
                                err |-> NoError,
                                ran |-> Append(p.ran, write),
                                user |-> p.user,
                                resp |-> [status |-> 200, json |-> task]]
    /\ inflight' = inflight (-) SetToBag({p})
    /\ UNCHANGED <<users, registered, issued, taskIds, now>>

----------------------------------------------------------------------------
(* A middleware called on its own, as Express calls it with (req, res, next) *)

Passed == [status |-> 0, json |-> [none |-> Null]]

\* authenticate(req, res, next): sets req.user and calls next(), or hands the
\* error to next(error)
AuthenticateCall(header) ==
    /\ LET a == authenticate(header, now)
       IN  last' = [op |-> "authenticate", req |-> [header |-> header],
                    err |-> a.err,
                    ran |-> IF a.err = NoError THEN Append(a.ran, "next")
                            ELSE a.ran,
                    user |-> a.user,
                    resp |-> IF a.err = NoError THEN Passed
                             ELSE errorHandler(a.err)]
    /\ UNCHANGED <<users, registered, inflight, issued, tasks, taskIds, now>>

\* requireRole(...roles)(req, res, next) on a request whose req.user is `user`
RequireRoleCall(roles, user) ==
    /\ LET err == requireRole(roles, user)
       IN  last' = [op |-> "requireRole",
                    req |-> [roles |-> roles, user |-> user],
                    err |-> err,
                    ran |-> IF err = NoError THEN <<"requireRole", "next">>
                            ELSE <<"requireRole">>,
                    user |-> user,
                    resp |-> IF err = NoError THEN Passed
                             ELSE errorHandler(err)]
    /\ UNCHANGED <<users, registered, inflight, issued, tasks, taskIds, now>>

----------------------------------------------------------------------------
(* The clock *)

\* `last` describes the request answered at the current instant, so it is
\* dropped when the clock moves on.
Tick ==
    /\ now < MaxTime
    /\ now' = now + 1
    /\ last' = Idle
    /\ UNCHANGED <<users, registered, inflight, issued, tasks, taskIds>>

----------------------------------------------------------------------------

(* What clients send *)

\* tokens a client can make up without the secret: one signed with a key of
\* its own, an issued one with the payload edited, and a string that is no JWT
ForgedToken == jwtSign(1, "ADMIN", OtherSecret, JwtExpiry + MaxTime, 0)

MalformedToken == NoToken

Tampered(token) ==
    {[token EXCEPT !.payload.role = "ADMIN"],
     [token EXCEPT !.payload.exp = @ + MaxTime]}

PresentableTokens ==
    issued \cup UNION {Tampered(t) : t \in issued}
           \cup {ForgedToken, MalformedToken}

Headers ==
    {NoHeader, [present |-> TRUE, scheme |-> "Basic ", token |-> NoToken]}
    \cup {[present |-> TRUE, scheme |-> "bearer ", token |-> t] : t \in issued}
    \cup {BearerHeader(t) : t \in PresentableTokens}

TaskIdInputs == {1}

CreateBodies == {[NoBody EXCEPT !.title = "Test Task"]}
UpdateBodies == {[NoBody EXCEPT !.status = "COMPLETED"]}
Queries == {NoQuery}

Request(method, path, taskId, body, query) ==
    [method |-> method, path |-> path, id |-> taskId, body |-> body,
     query |-> query]

TaskInputs ==
    {Request("POST", "/", 0, b, NoQuery) : b \in CreateBodies}
    \cup {Request("GET", p, 0, NoBody, q) : p \in {"/", "/all"}, q \in Queries}
    \cup {Request(m, "/:id", i, NoBody, NoQuery) :
              m \in {"GET", "DELETE"}, i \in TaskIdInputs}
    \cup {Request("PUT", "/:id", i, b, NoQuery) :
              i \in TaskIdInputs, b \in UpdateBodies}

\* the requests of the task routes on the ids in `idset`, the list routes
\* with the queries in `queries`
RequestsOn(idset, queries) ==
    {Request("POST", "/", 0, b, NoQuery) : b \in CreateBodies}
    \cup {Request("GET", p, 0, NoBody, q) : p \in {"/", "/all"}, q \in queries}
    \cup {Request(m, "/:id", i, NoBody, NoQuery) :
              m \in {"GET", "DELETE"}, i \in idset}
    \cup {Request("PUT", "/:id", i, b, NoQuery) :
              i \in idset, b \in UpdateBodies}

\* errorHandler(err, req, res, next), as Express calls it with an error that
\* a middleware or a controller handed to next(error)
ErrorHandlerCall(err) ==
    /\ last' = [op |-> "errorHandler", req |-> NoReq, err |-> err,
                ran |-> <<"errorHandler">>, user |-> NoCtx,
                resp |-> errorHandler(err)]
    /\ UNCHANGED <<users, registered, inflight, issued, tasks, taskIds, now>>

----------------------------------------------------------------------------
(* Specifications *)

Register ==
    \/ \E email \in Emails, password \in Passwords, role \in RoleInputs :
          RegisterFind(email, password, role)
    \/ \E data \in BagToSet(inflight), salt \in Salts :
          RegisterCreate(data, salt)

LoginStep == \E email \in Emails, password \in Passwords : Login(email, password)

TaskStep ==
    \E r \in TaskInputs, h \in Headers :
        TaskRequest(r.method, r.path, h, r.id, r.body, r.query)

\* the role lists a route can be given
RoleLists == {{"ADMIN"}, {"USER"}, {"USER", "ADMIN"}}

\* req.user as a request can carry it into a middleware: not set, or set by
\* authenticate from a header
Contexts == {NoCtx} \cup {authenticate(h, now).user : h \in Headers}

AuthenticateStep == \E h \in Headers : AuthenticateCall(h)

RequireRoleStep ==
    \E roles \in RoleLists, user \in Contexts : RequireRoleCall(roles, user)

\* GET /v1/tasks/all with a token that Login returned
AllTasksStep ==
    \E t \in issued :
        TaskRequest("GET", "/all", BearerHeader(t), 0, NoBody, NoQuery)

\* registration alone
NextRegister == Register

\* the emails and passwords a register request can carry, well-formed or not
RawEmails ==
    {NewEmail, SeedUserEmail, "test2@example.com", "invalid-email", "user1@",
     "@x.com", "user1@x", Absent}
RawPasswords == {"Test@123", "short", "1234567", Absent}

RegisterRouteStep ==
    \E email \in RawEmails, password \in RawPasswords, role \in RoleInputs :
        RegisterRequest(email, password, role)

RegisterCreateStep ==
    \E data \in BagToSet(inflight), salt \in Salts : RegisterCreate(data, salt)

\* registration behind the validation middleware
NextRegisterRoute == RegisterRouteStep \/ RegisterCreateStep

\* a task request without a header or with a token that Login returned
TaskOpStep ==
    \E r \in TaskInputs, h \in {NoHeader} \cup {BearerHeader(t) : t \in issued} :
        TaskRequest(r.method, r.path, h, r.id, r.body, r.query)

\* login, the task routes and the two middlewares on their own
NextFrame == LoginStep \/ TaskOpStep \/ AuthenticateStep \/ RequireRoleStep

\* registrations of the one email that has no Identity yet
RegisterNew ==
    \/ \E role \in RoleInputs : RegisterFind(NewEmail, SeedUserPassword, role)
    \/ \E data \in BagToSet(inflight), salt \in Salts :
          RegisterCreate(data, salt)

\* list, update and delete requests with a token that Login returned
SessionTaskStep ==
    \E r \in {q \in TaskInputs : q.method # "POST" /\ q.path # "/all"},
       t \in issued :
        TaskRequest(r.method, r.path, BearerHeader(t), r.id, r.body, r.query)

\* registration, login, task requests with the tokens of login, and time
NextSessions == RegisterNew \/ LoginStep \/ SessionTaskStep \/ Tick

\* a request of the routes open to every user, on any id handed out so
\* far, with a token of login
AnyTaskStep ==
    \E r \in {q \in RequestsOn(1..taskIds, Queries) : q.path # "/all"},
       t \in issued :
        TaskRequest(r.method, r.path, BearerHeader(t), r.id, r.body, r.query)

\* login and the task routes, on every task there is or was
NextOwnership == LoginStep \/ AnyTaskStep

\* the page and limit a query string can carry: absent, in range, or out
\* of range
PageQueries ==
    {[page |-> p, limit |-> l] :
        p \in {NotGiven, Given(0), Given(2), Given(3)},
        l \in {NotGiven, Given(2), Given(100), Given(101)}}

\* create and list by page, with a token of login
PagingStep ==
    \E r \in {q \in RequestsOn({}, PageQueries) : q.path # "/all"},
       t \in issued :
        TaskRequest(r.method, r.path, BearerHeader(t), r.id, r.body, r.query)

\* login, the list route with its query string, and time
NextPaging == LoginStep \/ PagingStep \/ Tick

\* the errors that reach the error handler from outside the services
ErrorsThrown ==
    {StorageFault, BodyParseError, UniqueViolation, NotAuthenticatedError,
     ValidationError("email password ")}

ErrorHandlerStep == \E err \in ErrorsThrown : ErrorHandlerCall(err)

\* bodies and queries that the schemas turn away
BadCreateBodies == {NoBody, [NoBody EXCEPT !.title = "Test Task",
                                           !.status = "DONE"]}
BadQueries == {[page |-> Given(0), limit |-> Given(101)]}

\* task requests that fail in every way the router knows, and reads and a
\* delete that succeed, without a header, with a forged token or with a
\* token of login
FailingTaskStep ==
    \E r \in {q \in TaskInputs : q.method \in {"GET", "DELETE"}}
              \cup {Request("POST", "/", 0, b, NoQuery) : b \in BadCreateBodies}
              \cup {Request("GET", "/", 0, NoBody, q) : q \in BadQueries}
              \cup {Request("PUT", "/:id", 1, NoBody, NoQuery)},
       h \in {NoHeader, BearerHeader(ForgedToken)}
              \cup {BearerHeader(t) : t \in issued} :
        TaskRequest(r.method, r.path, h, r.id, r.body, r.query)

\* every way a request can fail, and the error handler on its own
NextErrors == RegisterNew \/ LoginStep \/ FailingTaskStep \/ ErrorHandlerStep

\* a register request whose findUnique or create is refused by the store
RegisterFaultStep ==
    \/ \E role \in RoleInputs :
          RegisterFindFault(NewEmail, SeedUserPassword, role)
    \/ \E data \in BagToSet(inflight), salt \in Salts :
          RegisterCreateFault(data, salt)

LoginFaultStep ==
    \E email \in Emails, password \in Passwords : LoginFault(email, password)

\* registration and login against a store that can refuse any call
NextFaults == RegisterNew \/ LoginStep \/ RegisterFaultStep \/ LoginFaultStep

\* update bodies: empty, with an unknown field only, and with one or two
\* of the fields of a task, with and without an unknown field
UpdateBodyInputs ==
    {NoBody,
     [NoBody EXCEPT !.userId = "1"],
     [NoBody EXCEPT !.description = ""],
     [NoBody EXCEPT !.status = "COMPLETED"],
     [NoBody EXCEPT !.title = "Updated Task", !.userId = "1"],
     [NoBody EXCEPT !.title = "Updated Task", !.status = "IN_PROGRESS"]}

\* PUT /v1/tasks/:id for a task of either seeded user and for an id that no
\* task has, without a header or with a token of login
UpdateStep ==
    \E i \in {1, Len(SeedTasks), MaxTaskIds}, b \in UpdateBodyInputs,
       h \in {NoHeader} \cup {BearerHeader(t) : t \in issued} :
        TaskRequest("PUT", "/:id", h, i, b, NoQuery)

\* login, updates and time
NextUpdate == LoginStep \/ UpdateStep \/ Tick

\* create bodies: with a title, with a title and a status, with a title and
\* the id of another user, and without a title
CreateBodyInputs ==
    {[NoBody EXCEPT !.title = "Test Task"],
     [NoBody EXCEPT !.title = "Test Task", !.status = "COMPLETED"],
     [NoBody EXCEPT !.title = "Test Task", !.userId = "1"],
     [NoBody EXCEPT !.description = "Missing title"],
     [NoBody EXCEPT !.description = "Missing title", !.userId = "1"]}

\* POST /v1/tasks without a header or with a token of login
CreateStep ==
    \E b \in CreateBodyInputs,
       h \in {NoHeader} \cup {BearerHeader(t) : t \in issued} :
        TaskRequest("POST", "/", h, 0, b, NoQuery)

\* login, creates and time
NextCreate == LoginStep \/ CreateStep \/ Tick

\* every task route, the list routes with a query in range and with one out
\* of range, without a header, with a forged token or with a token of login
RouteStep ==
    \E r \in RequestsOn({1}, Queries \cup BadQueries),
       h \in {NoHeader, BearerHeader(ForgedToken)}
              \cup {BearerHeader(t) : t \in issued} :
        TaskRequest(r.method, r.path, h, r.id, r.body, r.query)

\* login and the task router
NextRoutes == LoginStep \/ RouteStep

\* an update or a delete of the seeded user's first task starts, with a
\* token of login
TaskOpFindStep ==
    \E t \in issued :
        \/ TaskOpFind("DELETE", BearerHeader(t), 1, NoBody)
        \/ \E b \in UpdateBodies : TaskOpFind("PUT", BearerHeader(t), 1, b)

TaskOpWriteStep == \E p \in BagToSet(inflight) : TaskOpWrite(p)

\* login, and updates and deletes whose reads and writes interleave
NextRace == LoginStep \/ TaskOpFindStep \/ TaskOpWriteStep

\* registration, login and the admin-only route
NextAdminRoute == RegisterNew \/ LoginStep \/ AllTasksStep \/ Tick

\* login and the two middlewares of auth.ts, each called on its own
NextMiddleware == LoginStep \/ AuthenticateStep \/ RequireRoleStep \/ Tick

\* registration and login against the user table
NextAuth == Register \/ LoginStep \/ Tick

\* every task route with every header; the update is sent for the admin's
\* seeded task, which already has the status it asks for
GateStep ==
    \E r \in {q \in TaskInputs : q.method # "PUT"}
              \cup {Request("PUT", "/:id", Len(SeedTasks), b, NoQuery) :
                        b \in UpdateBodies},
       h \in Headers :
        TaskRequest(r.method, r.path, h, r.id, r.body, r.query)

\* login and the task routes behind the authorization gate
NextGate == LoginStep \/ GateStep \/ Tick

Next == Register \/ LoginStep \/ TaskStep \/ Tick

SpecRegister == Init /\ [][NextRegister]_vars

SpecRace == Init /\ [][NextRace]_vars

SpecRoutes == Init /\ [][NextRoutes]_vars

SpecCreate == Init /\ [][NextCreate]_vars

SpecUpdate == Init /\ [][NextUpdate]_vars

SpecFaults == Init /\ [][NextFaults]_vars

SpecErrors == Init /\ [][NextErrors]_vars

SpecRegisterRoute == Init /\ [][NextRegisterRoute]_vars

SpecMiddleware == Init /\ [][NextMiddleware]_vars

SpecAdminRoute == Init /\ [][NextAdminRoute]_vars

SpecFrame == Init /\ [][NextFrame]_vars

SpecSessions == Init /\ [][NextSessions]_vars

SpecOwnership == Init /\ [][NextOwnership]_vars

SpecPaging == Init /\ [][NextPaging]_vars

SpecAuth == Init /\ [][NextAuth]_vars

SpecGate == Init /\ [][NextGate]_vars

Spec == Init /\ [][Next]_vars

----------------------------------------------------------------------------
(* Registration and login *)

ErrorBody(code, message) ==
    [error |-> [code |-> code, message |-> message, details |-> Null]]

Expired(token, clock) ==
    clock >= (token.payload.iat + JwtExpiry) * TicksPerSec

\* C1: a Login with the credentials of a registration that gave no role
\* succeeds, and its token, verified before it expires, yields the id that
\* Register returned and the role USER.
RegisterThenLogin ==
    \A i \in 1..Len(registered) :
        /\ ( /\ last.op = "login"
             /\ last.req.email = registered[i].email
             /\ last.req.password = registered[i].password
             /\ registered[i].role = NoRole )
           => /\ last.resp.status = 200
              /\ LET v == verifyToken(last.resp.json.token, now)
                 IN  /\ v.ok
                     /\ v.payload.sub = registered[i].userId
                     /\ v.payload.role = "USER"
        /\ \A t \in issued :
               ( /\ registered[i].role = NoRole
                 /\ t.payload.sub = registered[i].userId
                 /\ ~Expired(t, now) )
               => LET v == verifyToken(t, now)
                  IN  v.ok /\ v.payload.role = "USER"

RegisterThenLoginWitness ==
    /\ last.op = "login"
    /\ last.resp.status = 200
    /\ \E i \in 1..Len(registered) :
           /\ registered[i].role = NoRole
           /\ registered[i].email = last.req.email
           /\ registered[i].password = last.req.password
           /\ last.resp.json.user.id = registered[i].userId

\* the password each Identity was created with
OriginalPassword(email) ==
    registered[CHOOSE i \in 1..Len(registered) :
                   registered[i].email = email].password

\* C2: a Register whose email already belongs to an Identity is answered
\* 409 CONFLICT and writes nothing: the user table is the same afterwards,
\* Login with the original password succeeds and Login with the password of
\* the rejected call does not (unless it is the original one).
DuplicateRegisterNoWrite ==
    [][ \A email \in Emails, password \in Passwords, role \in RoleInputs :
            ( EmailTaken(users, email) /\ RegisterFind(email, password, role) )
            => /\ last'.op = "register"
               /\ last'.req.email = email
               /\ last'.resp = [status |-> 409,
                                json |-> ErrorBody("CONFLICT",
                                                   "User already exists")]
               /\ users' = users
               /\ inflight' = inflight
               /\ login(users', email, OriginalPassword(email), now').err
                      = NoError
               /\ password # OriginalPassword(email)
                      => login(users', email, password, now').err # NoError
      ]_vars

DuplicateRegisterWitness ==
    /\ last.op = "register"
    /\ last.resp.status = 409
    /\ last.req.email = NewEmail
    /\ last.req.password # OriginalPassword(NewEmail)

AuthFailedResponse ==
    [status |-> 401,
     json |-> ErrorBody("AUTH_FAILED", "Invalid credentials")]

\* C3: Login with a registered email and a wrong password and Login with an
\* email that has no Identity are answered alike: 401, AUTH_FAILED and one
\* message.
LoginFailuresAlike ==
    /\ \A e1, e2 \in Emails, p1, p2 \in Passwords :
           ( /\ EmailTaken(users, e1)
             /\ ~bcryptCompare(p1, findUnique(users, e1).password)
             /\ ~EmailTaken(users, e2) )
           => /\ login(users, e1, p1, now).resp = AuthFailedResponse
              /\ login(users, e2, p2, now).resp = AuthFailedResponse
    /\ (last.op = "login" /\ last.resp.status # 200)
           => last.resp = AuthFailedResponse

LoginFailuresAlikeWitness ==
    /\ last.op = "login"
    /\ last.resp.status = 401
    /\ EmailTaken(users, last.req.email)
    /\ ~EmailTaken(users, NewEmail)
    /\ login(users, NewEmail, last.req.password, now).resp.status = 401

\* C4: a token of Login carries iat = the second it was issued in and
\* exp = iat + TTL; verifyToken accepts it at every time before
\* iat + TTL and rejects it with INVALID_TOKEN from iat + TTL on.
TokenValidityWindow ==
    /\ \A t \in issued :
           /\ t.payload.exp = t.payload.iat + JwtExpiry
           /\ now < (t.payload.iat + JwtExpiry) * TicksPerSec
                  => verifyToken(t, now).ok
           /\ now >= (t.payload.iat + JwtExpiry) * TicksPerSec
                  => /\ ~verifyToken(t, now).ok
                     /\ verifyToken(t, now).err.code = "INVALID_TOKEN"
    /\ (last.op = "login" /\ last.resp.status = 200)
           => last.resp.json.token.payload.iat = Seconds(now)

TokenValidityWitness ==
    \E t \in issued :
        /\ ~verifyToken(t, now).ok
        /\ now = (t.payload.iat + JwtExpiry) * TicksPerSec

\* C7: a Register that loses the race (its insert is rejected by the unique
\* index after its own existence check passed) is answered 409 CONFLICT.
RaceReportedAsConflict ==
    (last.op = "register" /\ last.err = UniqueViolation)
        => /\ last.resp.status = 409
           /\ last.resp.json.error.code = "CONFLICT"

\* C8: no two Identities have the same email.
UniqueEmails ==
    \A i, j \in 1..Len(users) : users[i].email = users[j].email => i = j

UniqueEmailsWitness ==
    /\ last.op = "register"
    /\ last.err = UniqueViolation
    /\ Len(users) = 3

----------------------------------------------------------------------------
(* The authorization gate *)

AllTasksRequest(header) ==
    Request("GET", "/all", 0, NoBody, NoQuery) @@ [header |-> header]

\* C5: requireRole(ADMIN) on a context with role USER fails with
\* 403 FORBIDDEN and the next handler is not called; on a context with role
\* ADMIN it raises nothing and the next handler is called.
RequireRoleAdmin ==
    /\ \A id \in 1..Len(users) :
           /\ requireRole({"ADMIN"}, [id |-> id, role |-> "USER"])
                  = ForbiddenError
           /\ requireRole({"ADMIN"}, [id |-> id, role |-> "ADMIN"]) = NoError
    /\ \A t \in issued :
           verifyToken(t, now).ok =>
               LET d == dispatch(AllTasksRequest(BearerHeader(t)), now)
               IN  /\ t.payload.role = "USER"
                       => /\ errorHandler(d.err)
                               = [status |-> 403,
                                  json |-> ErrorBody("FORBIDDEN",
                                               "Insufficient permissions")]
                          /\ d.ran = <<"authenticate", "verifyToken",
                                       "requireRole">>
                          /\ d.handler = "none"
                   /\ t.payload.role = "ADMIN"
                       => /\ d.err = NoError
                          /\ d.ran = <<"authenticate", "verifyToken",
                                       "requireRole", "validate">>
                          /\ d.handler = "getAllTasks"
    /\ ( /\ last.op = "task"
         /\ last.req.method = "GET"
         /\ last.req.path = "/all"
         /\ last.user # NoCtx )
       => IF last.user.role = "ADMIN"
          THEN /\ last.err = NoError
               /\ last.resp.status = 200
               /\ last.ran = <<"authenticate", "verifyToken", "requireRole",
                               "validate", "getAllTasks", "task.findMany",
                               "task.count">>
          ELSE /\ last.resp.status = 403
               /\ last.resp.json.error.code = "FORBIDDEN"
               /\ last.ran = <<"authenticate", "verifyToken", "requireRole">>

RequireRoleAdminWitness ==
    /\ last.op = "task"
    /\ last.req.path = "/all"
    /\ last.user.role = "USER"
    /\ last.resp.status = 403
    /\ requireRole({"ADMIN"}, [last.user EXCEPT !.role = "ADMIN"]) = NoError

NoTokenResponse ==
    [status |-> 401, json |-> ErrorBody("INVALID_TOKEN", "No token provided")]

\* C6: on every task route a request without an Authorization header, or
\* with one that does not begin with 'Bearer ', is answered 401
\* INVALID_TOKEN, and nothing but authenticate runs for it: no token
\* verification, no validation, no controller, no storage operation.
MissingHeaderStopsAtGate ==
    /\ \A r \in TaskInputs, h \in Headers :
           (~h.present \/ h.scheme # "Bearer ")
               => LET d == dispatch(r @@ [header |-> h], now)
                  IN  /\ errorHandler(d.err) = NoTokenResponse
                      /\ d.ran = <<"authenticate">>
                      /\ d.handler = "none"
                      /\ d.user = NoCtx
    /\ ( /\ last.op = "task"
         /\ ~last.req.header.present \/ last.req.header.scheme # "Bearer " )
       => /\ last.resp = NoTokenResponse
          /\ last.ran = <<"authenticate">>
          /\ last.user = NoCtx

MissingHeaderWitness ==
    /\ last.op = "task"
    /\ last.req.header.scheme = "bearer "
    /\ verifyToken(last.req.header.token, now).ok
    /\ last.resp.status = 401

\* C9: authenticate attaches a context only for a token that Login issued
\* (signed with the process secret) and that has not expired, and the
\* context carries that token's sub and role; no other token gets one.
OnlyIssuedTokensPass ==
    /\ \A t \in PresentableTokens :
           LET a == authenticate(BearerHeader(t), now)
           IN  a.user # NoCtx
                   => /\ t \in issued
                      /\ t.sig = hmac(JwtSecret, t.payload)
                      /\ Seconds(now) < t.payload.exp
                      /\ a.user = [id |-> t.payload.sub,
                                   role |-> t.payload.role]
                      /\ a.err = NoError
    /\ (last.op = "task" /\ (last.user # NoCtx \/ last.err = NoError))
           => /\ last.req.header.present
              /\ last.req.header.scheme = "Bearer "
              /\ last.req.header.token \in issued
              /\ Seconds(now) < last.req.header.token.payload.exp
              /\ last.user = [id |-> last.req.header.token.payload.sub,
                              role |-> last.req.header.token.payload.role]
              /\ \E i \in 1..Len(users) :
                     /\ users[i].id = last.user.id
                     /\ users[i].role = last.user.role

OnlyIssuedTokensWitness ==
    /\ last.op = "task"
    /\ last.user # NoCtx
    /\ last.user.role = "USER"
    /\ last.req.header.token \in issued
    /\ \A t \in Tampered(last.req.header.token) :
           authenticate(BearerHeader(t), now).user = NoCtx

InvalidTokenResponse ==
    [status |-> 401,
     json |-> ErrorBody("INVALID_TOKEN", "Invalid or expired token")]

\* C10: a presented token that is rejected - forged, edited, malformed or
\* expired - gets one and the same answer: 401, INVALID_TOKEN and one
\* message.
RejectionsAlike ==
    /\ \A t \in PresentableTokens :
           ~verifyToken(t, now).ok
               => /\ verifyToken(t, now).err = InvalidTokenError
                  /\ \A r \in TaskInputs :
                         errorHandler(dispatch(r @@ [header |->
                                                     BearerHeader(t)],
                                               now).err)
                             = InvalidTokenResponse
    /\ ( /\ last.op = "task"
         /\ last.req.header.present
         /\ last.req.header.scheme = "Bearer "
         /\ last.user = NoCtx )
       => last.resp = InvalidTokenResponse

RejectionsAlikeWitness ==
    /\ last.op = "task"
    /\ last.req.header.scheme = "Bearer "
    /\ last.req.header.token \in issued
    /\ jwtVerify(last.req.header.token, JwtSecret, now) = "TokenExpiredError"
    /\ last.resp.status = 401
    /\ jwtVerify(ForgedToken, JwtSecret, now) = "JsonWebTokenError"
    /\ jwtVerify(MalformedToken, JwtSecret, now) = "JsonWebTokenError"

----------------------------------------------------------------------------
(* The middlewares on their own *)

\* C11: requireRole on a request without a context fails with an error kind
\* of its own - neither the kind of a rejected token (INVALID_TOKEN) nor
\* FORBIDDEN - and does not call the next handler.
UnauthenticatedIsOwnKind ==
    (last.op = "requireRole" /\ last.req.user = NoCtx)
        => /\ last.err # NoError
           /\ last.err.code \notin {InvalidTokenError.code, ForbiddenError.code}
           /\ last.ran = <<"requireRole">>

----------------------------------------------------------------------------
(* The admin-only route, end to end *)

ForbiddenResponse ==
    [status |-> 403,
     json |-> ErrorBody("FORBIDDEN", "Insufficient permissions")]

\* the ids of the Identities that were registered without a role
RegisteredWithoutRole ==
    {registered[i].userId :
         i \in {j \in 1..Len(registered) : registered[j].role = NoRole}}

SeededAdminId == SeedUsers[1].id

----------------------------------------------------------------------------
(* What a registration writes *)

\* the ids of the Identities that registered themselves with role ADMIN
SelfRegisteredAdmins ==
    {registered[i].userId :
         i \in {j \in (Len(SeedUsers) + 1)..Len(registered) :
                    registered[j].role = "ADMIN"}}

\* C13: the user table holds exactly one Identity for each successful
\* Register (and the seeded ones), each with the email of its request, a
\* hash of its password and the role its request gave (USER when it gave
\* none), whatever was registered after it; the 201 response carries the id
\* of the row just added; and the tokens Login gives to an Identity that
\* registered itself as ADMIN carry ADMIN and pass requireRole(ADMIN).
RegisterAddsOneIdentity ==
    /\ Len(users) = Len(registered)
    /\ \A i \in 1..Len(users) :
           /\ users[i].id = registered[i].userId
           /\ users[i].email = registered[i].email
           /\ users[i].role = IF registered[i].role = NoRole THEN "USER"
                              ELSE registered[i].role
           /\ bcryptCompare(registered[i].password, users[i].password)
           /\ \A j \in 1..Len(users) : users[j].id = users[i].id => j = i
    /\ (last.op = "register" /\ last.resp.status = 201)
           => LET n == Len(users)
              IN  /\ n > Len(SeedUsers)
                  /\ last.resp.json = [userId |-> users[n].id]
                  /\ users[n].email = last.req.email
                  /\ users[n].role = IF last.req.role = NoRole THEN "USER"
                                     ELSE last.req.role
    /\ (last.op = "register" /\ last.resp.status # 201)
           => \A i \in 1..Len(registered) :
                  registered[i].email = last.req.email
                      => users[i].role = IF registered[i].role = NoRole
                                         THEN "USER" ELSE registered[i].role
    /\ \A t \in issued :
           t.payload.sub \in SelfRegisteredAdmins
               => /\ t.payload.role = "ADMIN"
                  /\ LET a == authenticate(BearerHeader(t), now)
                     IN  a.err = NoError
                             => requireRole({"ADMIN"}, a.user) = NoError

RegisterAddsOneIdentityWitness ==
    /\ last.op = "login"
    /\ last.resp.status = 200
    /\ last.resp.json.user.id \in SelfRegisteredAdmins
    /\ LET a == authenticate(BearerHeader(last.resp.json.token), now)
       IN  a.err = NoError /\ requireRole({"ADMIN"}, a.user) = NoError

----------------------------------------------------------------------------
(* What the responses of register and login show *)

\* the password hashes in the user table
StoredHashes == {users[i].password : i \in 1..Len(users)}

\* an error body shows a code, one of the fixed messages and no details
FixedErrorBody(json) ==
    /\ DOMAIN json = {"error"}
    /\ DOMAIN json.error = {"code", "message", "details"}
    /\ json.error.message \in {"User already exists", "Invalid credentials",
                               "An unexpected error occurred"}
    /\ json.error.details = Null

\* C14: a successful Login answers with exactly a token and a user summary;
\* the summary has exactly the fields id, email and role, with the values
\* of the stored Identity of that email, and the token carries the same id
\* and role; no Login or Register response has a field holding a password
\* hash: a Register response is the new id alone or an error body, a failed
\* Login an error body.
LoginSummaryOnly ==
    /\ (last.op = "login" /\ last.resp.status = 200)
           => LET stored == findUnique(users, last.req.email)
                  json == last.resp.json
              IN  /\ DOMAIN json = {"token", "user"}
                  /\ DOMAIN json.user = {"id", "email", "role"}
                  /\ json.user = [id |-> stored.id, email |-> stored.email,
                                  role |-> stored.role]
                  /\ json.user \notin StoredHashes
                  /\ DOMAIN json.token.payload = {"sub", "role", "iat", "exp"}
                  /\ json.token.payload.sub = stored.id
                  /\ json.token.payload.role = stored.role
                  /\ json.token.payload \notin StoredHashes
    /\ (last.op = "login" /\ last.resp.status # 200)
           => FixedErrorBody(last.resp.json)
    /\ (last.op = "register" /\ last.resp.status = 201)
           => /\ DOMAIN last.resp.json = {"userId"}
              /\ last.resp.json.userId \in 1..Len(users)
    /\ (last.op = "register" /\ last.resp.status # 201)
           => FixedErrorBody(last.resp.json)

LoginSummaryOnlyWitness ==
    /\ last.op = "login"
    /\ last.resp.status = 200
    /\ last.resp.json.user.email = NewEmail
    /\ findUnique(users, NewEmail).password \in StoredHashes

----------------------------------------------------------------------------
(* Who writes to the user store *)

\* C15: no step removes or changes a row of the user table; a step that
\* answers a login (successful or not), a task request or a call of
\* authenticate or requireRole leaves the whole user table as it was; and a
\* call of authenticate or requireRole writes to no table and issues no
\* token: it only sets the context of its request.
IdentitiesImmutable ==
    [][ /\ \A i \in 1..Len(users) :
              Len(users') >= i /\ users'[i] = users[i]
        /\ last'.op \in {"login", "task", "authenticate", "requireRole"}
              => users' = users
        /\ last'.op \in {"authenticate", "requireRole"}
              => UNCHANGED <<users, tasks, taskIds, issued>>
      ]_vars

IdentitiesImmutableWitness ==
    /\ last.op = "requireRole"
    /\ last.user # NoCtx
    /\ last.err = NoError
    /\ Len(tasks) # Len(SeedTasks)
    /\ users = SeedUsers

----------------------------------------------------------------------------
(* Tokens and time *)

\* C16: whatever has happened since it was issued - logins of the same or
\* another Identity, registrations, task requests - a token of Login is
\* accepted by authenticate, with its own sub and role, at every moment
\* before its expiry, and a task request presenting it is not turned away
\* by the gate; a later Login of the same Identity leaves the earlier token
\* valid next to the new one.
NoRevocation ==
    /\ \A t \in issued :
           ~Expired(t, now)
               => authenticate(BearerHeader(t), now)
                      = [err |-> NoError,
                         user |-> [id |-> t.payload.sub,
                                   role |-> t.payload.role],
                         ran |-> <<"authenticate", "verifyToken">>]
    /\ ( /\ last.op = "task"
         /\ last.req.header.scheme = "Bearer "
         /\ last.req.header.token \in issued
         /\ ~Expired(last.req.header.token, now) )
       => /\ last.user = [id |-> last.req.header.token.payload.sub,
                          role |-> last.req.header.token.payload.role]
          /\ last.resp.status # 401
    /\ (last.op = "login" /\ last.resp.status = 200)
       => authenticate(BearerHeader(last.resp.json.token), now).err = NoError

NoRevocationWitness ==
    /\ last.op = "login"
    /\ last.resp.status = 200
    /\ \E t \in issued :
           /\ t.payload.sub = last.resp.json.user.id
           /\ t # last.resp.json.token
           /\ Len(tasks) # Len(SeedTasks)
           /\ authenticate(BearerHeader(t), now).err = NoError
           /\ authenticate(BearerHeader(last.resp.json.token), now).err
                  = NoError

----------------------------------------------------------------------------
(* Whose tasks a request reaches *)

NotFoundResponse ==
    [status |-> 404, json |-> ErrorBody("NOT_FOUND", "Task not found")]

\* the request answered by this step names a task by id
ByIdRequest(l) == l.op = "task" /\ l.req.path = "/:id" /\ l.user # NoCtx

\* C17: a get, update or delete by id that an authenticated user (of either
\* role) sends for a task of another user is answered 404 NOT_FOUND and
\* leaves the task table as it was; and the data of GET /v1/tasks holds
\* rows of the requesting user only.
OwnTasksOnly ==
    [][ /\ \A i \in 1..Len(tasks) :
              ( /\ ByIdRequest(last')
                /\ last'.req.id = tasks[i].id
                /\ last'.user.id # tasks[i].userId )
              => /\ last'.resp = NotFoundResponse
                 /\ tasks' = tasks
        /\ ( /\ last'.op = "task"
             /\ last'.req.method = "GET"
             /\ last'.req.path = "/"
             /\ last'.user # NoCtx )
           => /\ last'.resp.status = 200
              /\ \A k \in 1..Len(last'.resp.json.data) :
                     last'.resp.json.data[k].userId = last'.user.id
              /\ tasks' = tasks
      ]_vars

OwnTasksOnlyWitness ==
    /\ ByIdRequest(last)
    /\ last.req.method = "DELETE"
    /\ last.user.role = "ADMIN"
    /\ last.resp.status = 404
    /\ \E i \in 1..Len(tasks) :
           tasks[i].id = last.req.id /\ tasks[i].userId # last.user.id

\* the ids of the rows of the task table
TaskIdsIn(table) == {table[i].id : i \in 1..Len(table)}

\* the ids that were handed out and whose task has been deleted since; only
\* a successful delete by the owner removes a row
DeletedIds == (1..taskIds) \ TaskIdsIn(tasks)

\* C18: once a task has been deleted, it stays deleted and its id is not
\* given to another task; every get, update or delete by id that is sent
\* for it afterwards - by its former owner or anyone else - is answered
\* 404 NOT_FOUND and changes nothing; and the delete that removes a task is
\* the owner's, answered 204.
DeletedStaysGone ==
    [][ /\ \A x \in DeletedIds :
              /\ x \notin TaskIdsIn(tasks')
              /\ (ByIdRequest(last') /\ last'.req.id = x)
                     => /\ last'.resp = NotFoundResponse
                        /\ tasks' = tasks
        /\ \A i \in 1..Len(tasks) :
              tasks[i].id \notin TaskIdsIn(tasks')
                  => /\ ByIdRequest(last')
                     /\ last'.req.method = "DELETE"
                     /\ last'.req.id = tasks[i].id
                     /\ last'.user.id = tasks[i].userId
                     /\ last'.resp.status = 204
                     /\ Len(tasks') = Len(tasks) - 1
      ]_vars

DeletedStaysGoneWitness ==
    /\ ByIdRequest(last)
    /\ last.req.method = "DELETE"
    /\ last.req.id \in DeletedIds
    /\ last.req.id \in 1..Len(SeedTasks)
    /\ last.user.id = SeedTasks[last.req.id].userId
    /\ last.resp.status = 404


\* the indices of the rows of the task table that `userId` owns
OwnRows(userId) == {i \in 1..Len(tasks) : tasks[i].userId = userId}

\* the orders of the index set `idx` with no older row before a newer one
NewestFirst(idx) ==
    {o \in [1..Cardinality(idx) -> idx] :
        /\ \A j, k \in 1..Cardinality(idx) : j # k => o[j] # o[k]
        /\ \A j, k \in 1..Cardinality(idx) :
               j < k => tasks[o[j]].createdAt >= tasks[o[k]].createdAt}

\* the page and limit in force for a query: what it gives, or 1 and 10
PageOf(query) == IF query.page.given THEN query.page.n ELSE 1
LimitOf(query) == IF query.limit.given THEN query.limit.n ELSE 10

\* the last request was GET /v1/tasks of an authenticated user with a page
\* and a limit in range
ValidListRequest ==
    /\ last.op = "task"
    /\ last.req.method = "GET"
    /\ last.req.path = "/"
    /\ last.user # NoCtx
    /\ PageOf(last.req.query) >= 1
    /\ LimitOf(last.req.query) >= 1
    /\ LimitOf(last.req.query) <= 100

MalformedEmails == {"invalid-email", "user1@", "@x.com", "user1@x", Absent}

\* a register body that the request-shape gate has to turn away
BadRegisterBody(body) ==
    \/ body.email \in MalformedEmails
    \/ body.password = Absent
    \/ Len(body.password) < 8

\* C20: a Register request with a malformed email or a password shorter
\* than 8 characters is answered 400 VALIDATION_ERROR by the validation
\* middleware alone: findUnique, bcrypt.hash and create do not run, the
\* request never waits in the core, and the user table is as it was.
BadRegisterRejected ==
    [][ /\ ( /\ last' # last
             /\ last'.op = "register"
             /\ BadRegisterBody(last'.req) )
           => /\ last'.resp.status = 400
              /\ last'.resp.json.error.code = "VALIDATION_ERROR"
              /\ last'.ran = <<"validate">>
              /\ users' = users
              /\ registered' = registered
              /\ inflight' = inflight
        /\ \A d \in BagToSet(inflight') : ~BadRegisterBody(d)
        /\ \A i \in 1..Len(users') : users'[i].email \notin MalformedEmails
      ]_vars

\* a request with a good email and the password 'short' is turned away
\* after another registration has gone through
BadRegisterRejectedWitness ==
    /\ last.op = "register"
    /\ last.req.email = "test2@example.com"
    /\ last.req.password = "short"
    /\ last.resp.status = 400
    /\ last.ran = <<"validate">>
    /\ Len(users) > Len(SeedUsers)


----------------------------------------------------------------------------
(* Failures *)

\* C21: every failure is answered with a body of the one field error, which
\* has the three fields code, message and details; for an AppError the
\* status, code and message are the error's own and details is the error's
\* or null; for any other error the status is 500, the code INTERNAL_ERROR,
\* the message the fixed one - not the error's - and details null.
ErrorEnvelope ==
    last.err # NoError =>
        /\ DOMAIN last.resp.json = {"error"}
        /\ DOMAIN last.resp.json.error = {"code", "message", "details"}
        /\ IF last.err.app
           THEN /\ last.resp.status = last.err.statusCode
                /\ last.resp.json.error.code = last.err.code
                /\ last.resp.json.error.message = last.err.message
                /\ last.resp.json.error.details =
                       (IF last.err.details = Undefined THEN Null
                        ELSE last.err.details)
           ELSE /\ last.resp.status = 500
                /\ last.resp.json.error.code = "INTERNAL_ERROR"
                /\ last.resp.json.error.message
                       = "An unexpected error occurred"
                /\ last.resp.json.error.message # last.err.message
                /\ last.resp.json.error.details = Null

\* the SyntaxError of the body parser, which has the status 400 of its own,
\* is answered 500 after a validation error was answered 400 with details
ErrorEnvelopeWitness ==
    /\ last.op = "errorHandler"
    /\ last.err = BodyParseError
    /\ last.resp.status = 500
    /\ Len(users) > Len(SeedUsers)
    /\ issued # {}


\* how often the call `name` is in the list of calls `ran`
CallsOf(ran, name) == Cardinality({i \in 1..Len(ran) : ran[i] = name})

\* C22: a failure of the store during Register or Login is answered once,
\* as the 500 of a fault; no request calls findUnique or create more than
\* once; and the user table changes only by a Register that is answered
\* 201 - a Register that failed has written nothing.
FaultsPassedOn ==
    [][ /\ last'.op \in {"register", "login"}
           => /\ CallsOf(last'.ran, "findUnique") <= 1
              /\ CallsOf(last'.ran, "create") <= 1
              /\ last'.err = StorageFault
                     => /\ last'.resp.status = 500
                        /\ last'.resp.json.error.code = "INTERNAL_ERROR"
                        /\ users' = users
                        /\ registered' = registered
                        /\ issued' = issued
        /\ users' # users
               => /\ last'.op = "register"
                  /\ last'.err = NoError
                  /\ last'.resp.status = 201
                  /\ Len(users') = Len(users) + 1
      ]_vars

\* the create of a register request was refused: the answer is 500 and the
\* email has no Identity
FaultsPassedOnWitness ==
    /\ last.op = "register"
    /\ last.err = StorageFault
    /\ CallsOf(last.ran, "create") = 1
    /\ last.resp.status = 500
    /\ findUnique(users, last.req.email) = NoUser


----------------------------------------------------------------------------
(* Validation of task requests *)

\* the body has none of the fields an update can change
EmptyUpdate(body) ==
    body.title = Absent /\ body.description = Absent /\ body.status = Absent

\* the last request was an update with such a body
EmptyUpdateRequest(l) ==
    /\ l.op = "task"
    /\ l.req.method = "PUT"
    /\ l.req.path = "/:id"
    /\ EmptyUpdate(l.req.body)

\* the calls of the task service and of the store behind it
ServiceCalls ==
    {"createTask", "getTasks", "getAllTasks", "getTaskById", "updateTask",
     "deleteTask", "task.create", "task.findMany", "task.count",
     "task.findFirst", "task.update", "task.delete"}

\* C23 as stated: every update request whose body has none of title,
\* description and status is answered 400 VALIDATION_ERROR.
EmptyUpdateAlways400 ==
    EmptyUpdateRequest(last)
        => /\ last.resp.status = 400
           /\ last.resp.json.error.code = "VALIDATION_ERROR"

\* C23: an update request whose body has none of title, description and
\* status (unknown fields do not count) is turned away before the task
\* service runs and the task table stays as it is: with 400
\* VALIDATION_ERROR when the request carries a token that authenticate
\* accepts - whether the task exists, is the caller's or not - and with 401
\* INVALID_TOKEN when it does not.
EmptyUpdateRejected ==
    [][ EmptyUpdateRequest(last')
           => /\ \A k \in 1..Len(last'.ran) : last'.ran[k] \notin ServiceCalls
              /\ tasks' = tasks
              /\ IF last'.user # NoCtx
                 THEN /\ last'.resp.status = 400
                      /\ last'.resp.json.error.code = "VALIDATION_ERROR"
                 ELSE /\ last'.resp.status = 401
                      /\ last'.resp.json.error.code = "INVALID_TOKEN"
      ]_vars

\* the owner sends a body with an unknown field only for a task of their
\* own and is answered 400
EmptyUpdateRejectedWitness ==
    /\ EmptyUpdateRequest(last)
    /\ last.req.body.userId # Absent
    /\ last.user # NoCtx
    /\ \E i \in 1..Len(tasks) :
           tasks[i].id = last.req.id /\ tasks[i].userId = last.user.id
    /\ last.resp.status = 400


\* the last request was a create
CreateRequest(l) == l.op = "task" /\ l.req.method = "POST" /\ l.req.path = "/"

\* C24 as stated, its last part: every create request without a title is
\* answered 400 VALIDATION_ERROR.
NoTitleAlways400 ==
    (CreateRequest(last) /\ last.req.body.title = Absent)
        => /\ last.resp.status = 400
           /\ last.resp.json.error.code = "VALIDATION_ERROR"

\* C24: the task table grows only by a create request that carries an
\* accepted token, and the new task is owned by the sub of that token,
\* whatever the body holds, with the status of the body or PENDING when it
\* gives none; a create request without a title creates no task, and is
\* answered 400 VALIDATION_ERROR when its token is accepted and 401
\* INVALID_TOKEN when it has none that is.
CreatedTaskIsCallers ==
    [][ /\ tasks' # tasks
           => /\ CreateRequest(last')
              /\ last'.user # NoCtx
              /\ last'.resp.status = 201
              /\ Len(tasks') = Len(tasks) + 1
              /\ SubSeq(tasks', 1, Len(tasks)) = tasks
              /\ LET task == tasks'[Len(tasks')]
                 IN  /\ task.userId = last'.req.header.token.payload.sub
                     /\ task.userId = last'.user.id
                     /\ task.title = last'.req.body.title
                     /\ task.status = (IF last'.req.body.status = Absent
                                       THEN "PENDING"
                                       ELSE last'.req.body.status)
                     /\ last'.resp.json = task
        /\ (CreateRequest(last') /\ last'.req.body.title = Absent)
           => /\ tasks' = tasks
              /\ IF last'.user # NoCtx
                 THEN /\ last'.resp.status = 400
                      /\ last'.resp.json.error.code = "VALIDATION_ERROR"
                 ELSE /\ last'.resp.status = 401
                      /\ last'.resp.json.error.code = "INVALID_TOKEN"
      ]_vars

\* the seeded user creates a task with a body that names the admin as the
\* owner and gives no status: the task is the seeded user's and PENDING
CreatedTaskIsCallersWitness ==
    /\ CreateRequest(last)
    /\ last.req.body.userId = "1"
    /\ last.req.body.status = Absent
    /\ last.resp.status = 201
    /\ last.user.id = 2
    /\ tasks[Len(tasks)].userId = 2
    /\ tasks[Len(tasks)].status = "PENDING"


----------------------------------------------------------------------------
(* The order of the checks on a task route *)

\* the call `name` is among the calls of the last request
Ran(name) == \E k \in 1..Len(last.ran) : last.ran[k] = name

\* C26: on every request to the task router authenticate runs first, and
\* requireRole, validate, the controller and the store run only for a
\* request that has a context; no request to the router is answered with
\* requireRole's 'Not authenticated'.
NoContextUnreachable ==
    last.op = "task" =>
        /\ last.ran[1] = "authenticate"
        /\ Ran("requireRole") => last.user # NoCtx
        /\ Ran("validate") => last.user # NoCtx
        /\ (\E name \in ServiceCalls : Ran(name)) => last.user # NoCtx
        /\ last.err # NotAuthenticatedError
        /\ last.user = NoCtx => last.ran \in {<<"authenticate">>,
                                              <<"authenticate", "verifyToken">>}

\* a request to the admin-only route with a forged token stops in
\* authenticate, after another request got through requireRole
NoContextUnreachableWitness ==
    /\ last.op = "task"
    /\ last.req.path = "/all"
    /\ last.req.header.token = ForgedToken
    /\ last.user = NoCtx
    /\ ~Ran("requireRole")
    /\ last.resp.status = 401
    /\ issued # {}

\* the calls of a request to GET /v1/tasks/all, in their order
AllTasksChain ==
    <<"authenticate", "verifyToken", "requireRole", "validate",
      "getAllTasks", "task.findMany", "task.count">>

\* C27: a request to GET /v1/tasks/all runs authenticate, requireRole,
\* validate and the handler in this order and stops at the first that
\* fails; a USER's request with a page or limit out of range is answered
\* 403 FORBIDDEN with validate not run; and the handler of '/:id' never
\* runs for it.
AllTasksCheckOrder ==
    (last.op = "task" /\ last.req.method = "GET" /\ last.req.path = "/all")
        => /\ \E n \in 1..Len(AllTasksChain) :
                  last.ran = SubSeq(AllTasksChain, 1, n)
           /\ ~Ran("getTaskById")
           /\ ~Ran("task.findFirst")
           /\ ( /\ last.user.role = "USER"
                /\ ~paginationSchema(last.req.query).ok )
              => /\ last.resp.status = 403
                 /\ last.resp.json.error.code = "FORBIDDEN"
                 /\ ~Ran("validate")
           /\ ( /\ last.user.role = "ADMIN"
                /\ ~paginationSchema(last.req.query).ok )
              => /\ last.resp.status = 400
                 /\ ~Ran("getAllTasks")

\* a USER asks for page 0 with limit 101 of all tasks and is answered 403
AllTasksCheckOrderWitness ==
    /\ last.op = "task"
    /\ last.req.method = "GET"
    /\ last.req.path = "/all"
    /\ last.req.query = [page |-> Given(0), limit |-> Given(101)]
    /\ last.user.role = "USER"
    /\ last.resp.status = 403


----------------------------------------------------------------------------
(* Concurrent requests on one task *)

\* C28: an update or a delete of a task by its owner, interleaved with
\* another one on the same task, is answered with its success status (200
\* for the update, 204 for the delete) or with 404 NOT_FOUND, never with 500
\* INTERNAL_ERROR.
RaceEndsIn404OrSuccess ==
    (ByIdRequest(last) /\ last.req.method \in {"PUT", "DELETE"}
                       /\ last.user.id = SeedTasks[1].userId
                       /\ last.req.id = SeedTasks[1].id)
        => /\ last.resp.status # 500
           /\ last.resp.status \in {200, 204, 404}


----------------------------------------------------------------------------
(* What an update writes *)

UpdatableFields == {"title", "description", "status"}

====
